---- MODULE Spec2Model ----
(***************************************************************************)
(* Cutter-line adaptation of the page_split filter                         *)
(* (src/core/filters/page_split/PageLayoutAdapter.cpp).                    *)
(*                                                                         *)
(* qreal values are modelled as exact rationals <<n, d>> in lowest terms   *)
(* with d > 0, so that intersections of lines with integer endpoints are   *)
(* computed exactly; floating-point rounding error is not modelled.        *)
(***************************************************************************)
EXTENDS Integers, Sequences, FiniteSets, TLC

\* ------------------------------------------------------------------ bounds
\* Input points lie on the integer grid 0..MaxX by 0..MaxY.
MaxX == 3
MaxY == 2

\* ------------------------------------------------------- rational numbers
Abs(i) == IF i < 0 THEN -i ELSE i

RECURSIVE GCD(_, _)
GCD(a, b) == IF b = 0 THEN a ELSE GCD(b, a % b)

\* n/d in lowest terms, denominator positive (d # 0).
Norm(n, d) ==
  LET s == IF d < 0 THEN -1 ELSE 1
      g == GCD(Abs(n), Abs(d))
  IN  <<(s * n) \div g, (s * d) \div g>>

R(i) == <<i, 1>>
Zero == R(0)
One == R(1)
Two == R(2)

\* The operations cancel common factors before they multiply, which keeps
\* the intermediate integers small.
RAdd(a, b) ==
  LET g == GCD(a[2], b[2])
  IN  Norm(a[1] * (b[2] \div g) + b[1] * (a[2] \div g), (a[2] \div g) * b[2])
RSub(a, b) == RAdd(a, <<-b[1], b[2]>>)
RMul(a, b) ==
  LET g1 == GCD(Abs(a[1]), b[2])
      g2 == GCD(Abs(b[1]), a[2])
  IN  Norm((a[1] \div g1) * (b[1] \div g2), (a[2] \div g2) * (b[2] \div g1))
RDiv(a, b) ==
  IF b[1] < 0 THEN RMul(a, <<-b[2], -b[1]>>) ELSE RMul(a, <<b[2], b[1]>>)
RLt(a, b) ==
  LET g == GCD(a[2], b[2])
  IN  a[1] * (b[2] \div g) < b[1] * (a[2] \div g)
RLe(a, b) ==
  LET g == GCD(a[2], b[2])
  IN  a[1] * (b[2] \div g) <= b[1] * (a[2] \div g)
RGt(a, b) == RLt(b, a)
RGe(a, b) == RLe(b, a)

\* ------------------------------------------------- Qt geometry primitives
\* QPointF: [x, y]; QLineF: [p1, p2]; QRectF: [x, y, w, h] (xp, yp, w, h).
Pt(x, y) == [x |-> x, y |-> y]
Ln(p1, p2) == [p1 |-> p1, p2 |-> p2]
Rc(x, y, w, h) == [x |-> x, y |-> y, w |-> w, h |-> h]

PSub(p, q) == Pt(RSub(p.x, q.x), RSub(p.y, q.y))

\* qFuzzyCompare(p1, p2): |p1 - p2| * 10^12 <= min(|p1|, |p2|).  For two
\* different rationals whose numerators and denominators fit the model's
\* integers the left side exceeds the right, so it decides equality.
qFuzzyCompare(a, b) == a = b

\* QLineF::isNull
isNull(l) == qFuzzyCompare(l.p1.x, l.p2.x) /\ qFuzzyCompare(l.p1.y, l.p2.y)

\* QRectF accessors
left(r) == r.x
top(r) == r.y
right(r) == RAdd(r.x, r.w)
bottom(r) == RAdd(r.y, r.h)
topLeft(r) == Pt(left(r), top(r))
topRight(r) == Pt(right(r), top(r))
bottomLeft(r) == Pt(left(r), bottom(r))
bottomRight(r) == Pt(right(r), bottom(r))

\* QRectF::isValid
isValid(r) == RGt(r.w, Zero) /\ RGt(r.h, Zero)

\* QLineF::intersects(l, &point), called on line t.  The result holds the
\* intersection type and the value written through the pointer; with
\* NoIntersection nothing is written and the caller's default-constructed
\* QPointF (0, 0) stays.
NoIntersection == "NoIntersection"
BoundedIntersection == "BoundedIntersection"
UnboundedIntersection == "UnboundedIntersection"

intersects(t, l) ==
  LET a == PSub(t.p2, t.p1)
      b == PSub(l.p1, l.p2)
      c == PSub(t.p1, l.p1)
      denominator == RSub(RMul(a.y, b.x), RMul(a.x, b.y))
  IN  IF denominator = Zero
      THEN [type |-> NoIntersection, point |-> Pt(Zero, Zero)]
      ELSE
        LET reciprocal == RDiv(One, denominator)
            na == RMul(RSub(RMul(b.y, c.x), RMul(b.x, c.y)), reciprocal)
            nb == RMul(RSub(RMul(a.x, c.y), RMul(a.y, c.x)), reciprocal)
            ip == Pt(RAdd(t.p1.x, RMul(a.x, na)), RAdd(t.p1.y, RMul(a.y, na)))
        IN  IF RLt(na, Zero) \/ RGt(na, One) \/ RLt(nb, Zero) \/ RGt(nb, One)
            THEN [type |-> UnboundedIntersection, point |-> ip]
            ELSE [type |-> BoundedIntersection, point |-> ip]

\* ------------------------------------------------------------ adaptCutter
\* Fault variant of earlyReturn: the rectangle's validity is not tested.
earlyReturn_noValid(cutterLine, newRect) == isNull(cutterLine)

\* The guard of the identity fallback.
earlyReturn(cutterLine, newRect) == ~isValid(newRect) \/ isNull(cutterLine)

upperBorder(newRect) == Ln(topLeft(newRect), topRight(newRect))

\* Fault variant of lowerBorder: the upper border taken a second time.
lowerBorder_asUpper(newRect) == Ln(topLeft(newRect), topRight(newRect))

lowerBorder(newRect) == Ln(bottomLeft(newRect), bottomRight(newRect))

\* Fault variant of clampX: the test against the right end is missing.
clampX_lowOnly(p, lo, hi) == IF RLt(p.x, lo) THEN Pt(lo, p.y) ELSE p

\* "if intersection is outside the rect": the clamp of an intersection's x
\* into the border's horizontal extent [lo, hi].
clampX(p, lo, hi) ==
  IF RLt(p.x, lo) THEN Pt(lo, p.y)
  ELSE IF RGt(p.x, hi) THEN Pt(hi, p.y)
  ELSE p

\* Fault variant of adaptedLine: the endpoints in the wrong order.
adaptedLine_swapped(upperIntersection, lowerIntersection) ==
  Ln(lowerIntersection, upperIntersection)

\* The returned QLineF(upperIntersection, lowerIntersection).
adaptedLine(upperIntersection, lowerIntersection) ==
  Ln(upperIntersection, lowerIntersection)

\* Fault variant of adaptCutter: the result keeps the direction of the
\* input, lower point first when the input's first endpoint is the lower.
adaptCutter_keepDirection(cutterLine, newRect) ==
  IF earlyReturn(cutterLine, newRect)
  THEN cutterLine
  ELSE
    LET upper == intersects(upperBorder(newRect), cutterLine)
        lower == intersects(lowerBorder(newRect), cutterLine)
    IN  IF upper.type = NoIntersection \/ lower.type = NoIntersection
        THEN cutterLine
        ELSE
          LET u == clampX(upper.point, topLeft(newRect).x, topRight(newRect).x)
              w == clampX(lower.point, bottomLeft(newRect).x,
                          bottomRight(newRect).x)
          IN  IF RGt(cutterLine.p1.y, cutterLine.p2.y)
              THEN Ln(w, u)
              ELSE Ln(u, w)

adaptCutter(cutterLine, newRect) ==
  IF earlyReturn(cutterLine, newRect)
  THEN cutterLine
  ELSE
    LET upper == intersects(upperBorder(newRect), cutterLine)
    IN  IF upper.type = NoIntersection
        THEN cutterLine
        ELSE
          LET upperIntersection ==
                clampX(upper.point, topLeft(newRect).x, topRight(newRect).x)
              lower == intersects(lowerBorder(newRect), cutterLine)
          IN  IF lower.type = NoIntersection
              THEN cutterLine
              ELSE adaptedLine(upperIntersection,
                               clampX(lower.point, bottomLeft(newRect).x,
                                      bottomRight(newRect).x))

\* ----------------------------------------------------------- adaptCutters
\* Fault variant of projectAll: null lines are left out of the result.
projectAll_skipNull(cuttersList, newRect) ==
  SelectSeq([i \in 1..Len(cuttersList) |-> adaptCutter(cuttersList[i], newRect)],
            LAMBDA l : ~isNull(l))

\* The projection loop: adaptCutter on every line, in input order.
projectAll(cuttersList, newRect) ==
  [i \in 1..Len(cuttersList) |-> adaptCutter(cuttersList[i], newRect)]

\* The comparison handed to std::sort.
lessX1(line1, line2) == RLt(line1.p1.x, line2.p1.x)

\* std::sort leaves the relative order of lines with equal x1 unspecified:
\* every permutation in which no line precedes a line of smaller x1.
sortedOrders(cs) ==
  { t \in { [i \in 1..Len(cs) |-> cs[p[i]]] : p \in Permutations(1..Len(cs)) } :
      \A i, j \in 1..Len(cs) : i < j => ~lessX1(t[j], t[i]) }

\* Fault variant of fixPair: only the left line of the pair is truncated.
fixPair_leftOnly(cs, i, newRect) ==
  LET is == intersects(cs[i - 1], cs[i])
  IN  IF is.type = NoIntersection
      THEN cs
      ELSE IF RLt(is.point.y, bottom(newRect)) /\ RGt(is.point.y, top(newRect))
      THEN
        IF RLe(RSub(bottom(newRect), is.point.y),
               RDiv(RSub(bottom(newRect), top(newRect)), Two))
        THEN [cs EXCEPT ![i - 1] = Ln(cs[i - 1].p1, Pt(is.point.x, bottom(newRect)))]
        ELSE [cs EXCEPT ![i - 1] = Ln(Pt(is.point.x, top(newRect)), cs[i - 1].p2)]
      ELSE cs

\* Fault variant of fixPair: a crossing at the vertical midpoint goes to the
\* top ("<" for "<=").
fixPair_strictHalf(cs, i, newRect) ==
  LET is == intersects(cs[i - 1], cs[i])
  IN  IF is.type = NoIntersection
      THEN cs
      ELSE IF RLt(is.point.y, bottom(newRect)) /\ RGt(is.point.y, top(newRect))
      THEN
        IF RLt(RSub(bottom(newRect), is.point.y),
               RDiv(RSub(bottom(newRect), top(newRect)), Two))
        THEN [cs EXCEPT ![i - 1] = Ln(cs[i - 1].p1, Pt(is.point.x, bottom(newRect))),
                        ![i] = Ln(cs[i].p1, Pt(is.point.x, bottom(newRect)))]
        ELSE [cs EXCEPT ![i - 1] = Ln(Pt(is.point.x, top(newRect)), cs[i - 1].p2),
                        ![i] = Ln(Pt(is.point.x, top(newRect)), cs[i].p2)]
      ELSE cs

\* Fault variant of fixPair: a crossing on the top or bottom bound counts as
\* inside ("<=" and ">=" for "<" and ">").
fixPair_nonStrict(cs, i, newRect) ==
  LET is == intersects(cs[i - 1], cs[i])
  IN  IF is.type = NoIntersection
      THEN cs
      ELSE IF RLe(is.point.y, bottom(newRect)) /\ RGe(is.point.y, top(newRect))
      THEN
        IF RLe(RSub(bottom(newRect), is.point.y),
               RDiv(RSub(bottom(newRect), top(newRect)), Two))
        THEN [cs EXCEPT ![i - 1] = Ln(cs[i - 1].p1, Pt(is.point.x, bottom(newRect))),
                        ![i] = Ln(cs[i].p1, Pt(is.point.x, bottom(newRect)))]
        ELSE [cs EXCEPT ![i - 1] = Ln(Pt(is.point.x, top(newRect)), cs[i - 1].p2),
                        ![i] = Ln(Pt(is.point.x, top(newRect)), cs[i].p2)]
      ELSE cs

\* Fault variant of fixPair: the endpoints are moved to the crossing itself,
\* not to the border next to it.
fixPair_atCrossing(cs, i, newRect) ==
  LET is == intersects(cs[i - 1], cs[i])
  IN  IF is.type = NoIntersection
      THEN cs
      ELSE IF RLt(is.point.y, bottom(newRect)) /\ RGt(is.point.y, top(newRect))
      THEN
        IF RLe(RSub(bottom(newRect), is.point.y),
               RDiv(RSub(bottom(newRect), top(newRect)), Two))
        THEN [cs EXCEPT ![i - 1] = Ln(cs[i - 1].p1, is.point),
                        ![i] = Ln(cs[i].p1, is.point)]
        ELSE [cs EXCEPT ![i - 1] = Ln(is.point, cs[i - 1].p2),
                        ![i] = Ln(is.point, cs[i].p2)]
      ELSE cs

\* One pass of the loop body for the pair (i - 1, i), 1-based i >= 2.
fixPair(cs, i, newRect) ==
  LET upperBound == top(newRect)
      lowerBound == bottom(newRect)
      cutterLeft == cs[i - 1]
      cutterRight == cs[i]
      is == intersects(cutterLeft, cutterRight)
      intersection == is.point
  IN  IF is.type = NoIntersection
      THEN cs
      ELSE IF RLt(intersection.y, lowerBound) /\ RGt(intersection.y, upperBound)
      THEN
        IF RLe(RSub(lowerBound, intersection.y),
               RDiv(RSub(lowerBound, upperBound), Two))
        THEN [cs EXCEPT ![i - 1] = Ln(cutterLeft.p1, Pt(intersection.x, lowerBound)),
                        ![i] = Ln(cutterRight.p1, Pt(intersection.x, lowerBound))]
        ELSE [cs EXCEPT ![i - 1] = Ln(Pt(intersection.x, upperBound), cutterLeft.p2),
                        ![i] = Ln(Pt(intersection.x, upperBound), cutterRight.p2)]
      ELSE cs

\* The list after the iterations of "for (int i = 1; i < size; i++)" for
\* the pairs up to (k - 1, k); k < 2: before the loop.
RECURSIVE fixUpTo(_, _, _)
fixUpTo(cs, k, newRect) ==
  IF k < 2 THEN cs ELSE fixPair(fixUpTo(cs, k - 1, newRect), k, newRect)

\* adaptCutters' return value once std::sort has produced the order sorted.
resolved(sorted, newRect) == fixUpTo(sorted, Len(sorted), newRect)

\* ------------------------------------------------------------- PageLayout
\* The page layout value type: a type, the outline and the cutter lines
\* (none, one for TWO_PAGES, two for SINGLE_PAGE_CUT).
SINGLE_PAGE_UNCUT == "SINGLE_PAGE_UNCUT"
SINGLE_PAGE_CUT == "SINGLE_PAGE_CUT"
TWO_PAGES == "TWO_PAGES"

\* PageLayout(outline), PageLayout(outline, cutter), PageLayout(outline,
\* cutter1, cutter2)
PageLayoutUncut(fullRect) ==
  [type |-> SINGLE_PAGE_UNCUT, uncutOutline |-> fullRect, cutters |-> <<>>]
PageLayoutTwoPages(fullRect, splitLine) ==
  [type |-> TWO_PAGES, uncutOutline |-> fullRect, cutters |-> <<splitLine>>]
PageLayoutCut(fullRect, cutter1, cutter2) ==
  [type |-> SINGLE_PAGE_CUT, uncutOutline |-> fullRect,
   cutters |-> <<cutter1, cutter2>>]

\* PageLayout::cutterLine(idx), idx from 0
cutterLine(layout, idx) == layout.cutters[idx + 1]

\* PageLayout::setType
setType(layout, type) == [layout EXCEPT !.type = type]

\* uncutOutline().boundingRect(): the bounding rectangle of the outline's
\* corner points, which for an outline of negative extent is the same
\* rectangle with its edges in order.
RMin(a, b) == IF RLe(a, b) THEN a ELSE b
RAbs(a) == IF RLt(a, Zero) THEN RSub(Zero, a) ELSE a
boundingRect(r) ==
  Rc(RMin(left(r), right(r)), RMin(top(r), bottom(r)), RAbs(r.w), RAbs(r.h))

\* qRound(d): d >= 0.0 ? int(d + 0.5) : int(d - 0.5), int() truncating.
qRound(d) ==
  IF RGe(d, Zero)
  THEN (2 * d[1] + d[2]) \div (2 * d[2])
  ELSE -((d[2] - 2 * d[1]) \div (2 * d[2]))

\* Variant of toRect that rounds the position and the size instead of the
\* corners: x and y to the nearest integer, the width and the height after
\* adding half of what the rounding moved the corner by.
toRect_sizeRounded(r) ==
  LET nxp == qRound(r.x)
      nyp == qRound(r.y)
  IN  Rc(R(nxp), R(nyp),
         R(qRound(RAdd(r.w, RDiv(RSub(r.x, R(nxp)), Two)))),
         R(qRound(RAdd(r.h, RDiv(RSub(r.y, R(nyp)), Two)))))

\* QRectF::toRect() read back as a QRectF: the corners rounded.
toRect(r) ==
  Rc(R(qRound(left(r))), R(qRound(top(r))),
     R(qRound(right(r)) - qRound(left(r))),
     R(qRound(bottom(r)) - qRound(top(r))))

\* Fault variant of toLine: the endpoints are not rounded.
toLine_exact(l) == l

\* QLineF::toLine() read back as a QLineF: the endpoints rounded.
toLine(l) ==
  Ln(Pt(R(qRound(l.p1.x)), R(qRound(l.p1.y))),
     Pt(R(qRound(l.p2.x)), R(qRound(l.p2.y))))

\* QRectF operator== and QPointF operator== compare the coordinates with
\* qFuzzyCompare.
rectEq(r1, r2) ==
  /\ qFuzzyCompare(r1.x, r2.x) /\ qFuzzyCompare(r1.y, r2.y)
  /\ qFuzzyCompare(r1.w, r2.w) /\ qFuzzyCompare(r1.h, r2.h)
pointEq(p, q) == qFuzzyCompare(p.x, q.x) /\ qFuzzyCompare(p.y, q.y)

\* --------------------------------------------------- correctPageLayoutType
\* Fault variant of matchesBound: only the left bound is compared.
matchesBound_leftOnly(cutterLine1, outline) ==
  /\ cutterLine1.p1.x = cutterLine1.p2.x
  /\ cutterLine1.p1.x = left(outline)

\* "if the cutter line matches left or right bound"
matchesBound(cutterLine1, outline) ==
  /\ cutterLine1.p1.x = cutterLine1.p2.x
  /\ (cutterLine1.p1.x = left(outline) \/ cutterLine1.p1.x = right(outline))

\* "if cutter lines match or intersect inside outline (not valid)"
matchOrIntersectInside(cutterLine1, cutterLine2, outline) ==
  LET is == intersects(cutterLine1, cutterLine2)
      intersection == is.point
  IN  \/ /\ is.type # NoIntersection
         /\ RGt(intersection.y, top(outline))
         /\ RLt(intersection.y, bottom(outline))
      \/ /\ is.type = NoIntersection
         /\ pointEq(cutterLine1.p1, cutterLine2.p1)

\* Fault variant of correctCut: the tests set TWO_PAGES instead of
\* SINGLE_PAGE_UNCUT.
correctCut_toTwoPages(layout, outline) ==
  IF layout.type = SINGLE_PAGE_CUT
  THEN
    LET cutterLine1 == toLine(cutterLine(layout, 0))
        cutterLine2 == toLine(cutterLine(layout, 1))
    IN  IF \/ matchesBound(cutterLine1, outline) /\ matchesBound(cutterLine2, outline)
           \/ matchOrIntersectInside(cutterLine1, cutterLine2, outline)
        THEN setType(layout, TWO_PAGES)
        ELSE layout
  ELSE layout

\* The SINGLE_PAGE_CUT block: the two tests, one after the other, on the
\* cutter lines read before either.
correctCut(layout, outline) ==
  IF layout.type = SINGLE_PAGE_CUT
  THEN
    LET cutterLine1 == toLine(cutterLine(layout, 0))
        cutterLine2 == toLine(cutterLine(layout, 1))
        first == IF matchesBound(cutterLine1, outline)
                      /\ matchesBound(cutterLine2, outline)
                 THEN setType(layout, SINGLE_PAGE_UNCUT)
                 ELSE layout
    IN  IF matchOrIntersectInside(cutterLine1, cutterLine2, outline)
        THEN setType(first, SINGLE_PAGE_UNCUT)
        ELSE first
  ELSE layout

\* Fault variant of correctTwoPages: the block is missing.
correctTwoPages_none(layout, outline) == layout

\* The TWO_PAGES block.
correctTwoPages(layout, outline) ==
  IF layout.type = TWO_PAGES
  THEN
    IF matchesBound(toLine(cutterLine(layout, 0)), outline)
    THEN setType(layout, SINGLE_PAGE_UNCUT)
    ELSE layout
  ELSE layout

\* The layout as correctPageLayoutType(&layout) leaves it.
correctPageLayoutType(layout) ==
  LET outline == toRect(boundingRect(layout.uncutOutline))
  IN  correctTwoPages(correctCut(layout, outline), outline)

\* -------------------------------------------------------- adaptPageLayout
\* Fault variant of unchangedOutline: the equality test is never true, so
\* every call adapts.
unchangedOutline_never(pageLayout, outline) == FALSE

\* "if (pageLayout.uncutOutline().boundingRect() == outline)"
unchangedOutline(pageLayout, outline) ==
  rectEq(boundingRect(pageLayout.uncutOutline), outline)

\* Fault variant of adaptPageLayout: the SINGLE_PAGE_CUT branch hands the
\* resolved lines to the constructor in the opposite order.
adaptPageLayout_swapped(pageLayout, outline) ==
  IF unchangedOutline(pageLayout, outline)
  THEN {pageLayout}
  ELSE IF pageLayout.type = SINGLE_PAGE_CUT
  THEN { correctPageLayoutType(
           PageLayoutCut(outline, resolved(sorted, outline)[2],
                         resolved(sorted, outline)[1])) :
         sorted \in sortedOrders(projectAll(
           <<cutterLine(pageLayout, 0), cutterLine(pageLayout, 1)>>, outline)) }
  ELSE IF pageLayout.type = TWO_PAGES
  THEN { correctPageLayoutType(
           PageLayoutTwoPages(outline,
                              adaptCutter(cutterLine(pageLayout, 0), outline))) }
  ELSE { PageLayoutUncut(outline) }

\* The values adaptPageLayout(pageLayout, outline) can return: one for each
\* order std::sort may leave lines of equal x1 in.
adaptPageLayout(pageLayout, outline) ==
  IF unchangedOutline(pageLayout, outline)
  THEN {pageLayout}
  ELSE IF pageLayout.type = SINGLE_PAGE_CUT
  THEN { correctPageLayoutType(
           PageLayoutCut(outline, resolved(sorted, outline)[1],
                         resolved(sorted, outline)[2])) :
         sorted \in sortedOrders(projectAll(
           <<cutterLine(pageLayout, 0), cutterLine(pageLayout, 1)>>, outline)) }
  ELSE IF pageLayout.type = TWO_PAGES
  THEN { correctPageLayoutType(
           PageLayoutTwoPages(outline,
                              adaptCutter(cutterLine(pageLayout, 0), outline))) }
  ELSE { PageLayoutUncut(outline) }

\* ------------------------------------------------------------------ VecNT
\* VecNT<N, T>: a sequence of N elements; T's values are modelled as exact
\* rationals, T() is zero.
\* The first k iterations of sum's loop.
RECURSIVE sumLoop(_, _)
sumLoop(m_data, k) ==
  IF k = 0 THEN Zero ELSE RAdd(sumLoop(m_data, k - 1), m_data[k])

\* Fault variant of sum: the loop misses the last element.
sum_shortLoop(m_data) == sumLoop(m_data, Len(m_data) - 1)

\* VecNT::sum
sum(m_data) == sumLoop(m_data, Len(m_data))

\* The first k iterations of dot's loop.
RECURSIVE dotLoop(_, _, _)
dotLoop(m_data, otherData, k) ==
  IF k = 0
  THEN Zero
  ELSE RAdd(dotLoop(m_data, otherData, k - 1), RMul(m_data[k], otherData[k]))

\* VecNT::dot
dot(m_data, otherData) == dotLoop(m_data, otherData, Len(m_data))

\* VecNT::squaredNorm
squaredNorm(m_data) == dot(m_data, m_data)

\* VecNT::operator*=(T scalar)
mulAssign(m_data, s) == [i \in 1..Len(m_data) |-> RMul(m_data[i], s)]

\* VecNT::operator/=(T scalar): *this *= (T(1) / scalar)
divAssign(m_data, s) == mulAssign(m_data, RDiv(One, s))

\* operator/(const VecNT& vec, T scalar)
divVecScalar(v, s) == divAssign(v, s)

\* Fault variant of divScalarVec: the scalar divided by each element.
divScalarVec_inverted(s, v) == [i \in 1..Len(v) |-> RDiv(s, v[i])]

\* operator/(T scalar, const VecNT& vec)
divScalarVec(s, v) == divAssign(v, s)

\* ------------------------------------------------------------ input sets
Points == { Pt(R(x), R(y)) : x \in 0..MaxX, y \in 0..MaxY }
Lines == { Ln(p, q) : p, q \in Points }
\* Rectangles with a corner in the grid's first cell and extents that may be
\* negative or zero (invalid) or reach past the grid.
Rects == { Rc(R(x), R(y), R(w), R(h)) :
             x \in 0..1, y \in 0..1, w \in (-1)..MaxX, h \in (-1)..MaxY }
\* The rectangle covering the whole grid.
FullRect == Rc(Zero, Zero, R(MaxX), R(MaxY))
\* The rectangles of the multi-line calls, anchored at the grid's origin:
\* the valid ones as wide and as high as the grid or one less, and invalid
\* ones of zero or negative width or height.
ListRects ==
  { Rc(Zero, Zero, R(w), R(h)) : w \in {MaxX - 1, MaxX}, h \in {MaxY - 1, MaxY} }
    \cup { Rc(Zero, Zero, R(w), R(MaxY)) : w \in {-1, 0} }
    \cup { Rc(Zero, Zero, R(MaxX), R(h)) : h \in {-1, 0} }
\* Lines from the grid's top row to its bottom row.
SpanLines == { l \in Lines : l.p1.y = Zero /\ l.p2.y = R(MaxY) }
\* The lists handed to adaptCutters are drawn in one order each, by
\* decreasing lineKey (decreasing x1 first, so that the sort has work to
\* do): the function sorts its input and every order std::sort can leave
\* equal keys in is explored, so the set of results does not depend on the
\* order the lines arrive in.
lineKey(l) ==
  ((l.p1.x[1] * (MaxY + 1) + l.p1.y[1]) * (MaxX + 1) + l.p2.x[1]) * (MaxY + 1)
    + l.p2.y[1]
\* Two-line lists with at least one top-to-bottom line.
SpanPairs ==
  { c \in Lines \X Lines :
      /\ c[1] \in SpanLines \/ c[2] \in SpanLines
      /\ lineKey(c[1]) >= lineKey(c[2]) }
\* Two-line lists of top-to-bottom lines.
BothSpanPairs == { c \in SpanPairs : c[1] \in SpanLines /\ c[2] \in SpanLines }
\* The rectangles a top-to-bottom line is paired with any other line on,
\* besides the full one: a valid one narrower and shorter than the grid and
\* one of zero width.
MixedRects ==
  { Rc(Zero, Zero, R(MaxX - 1), R(MaxY - 1)), Rc(Zero, Zero, Zero, R(MaxY)) }
\* Two-line lists with at least one line that adaptCutter returns as it
\* is on every rectangle: a horizontal or a null one.
FlatPairs ==
  { c \in Lines \X Lines :
      /\ c[1].p1.y = c[1].p2.y \/ c[2].p1.y = c[2].p2.y
      /\ lineKey(c[1]) >= lineKey(c[2]) }
\* Lines from the grid's top row that end above its bottom row and are not
\* horizontal, and the two-line lists of them.
ShortLines ==
  { l \in Lines : l.p1.y = Zero /\ l.p2.y # Zero /\ l.p2.y # R(MaxY) }
ShortPairs ==
  { c \in ShortLines \X ShortLines : lineKey(c[1]) >= lineKey(c[2]) }
Triples ==
  { c \in SpanLines \X SpanLines \X SpanLines :
      lineKey(c[1]) >= lineKey(c[2]) /\ lineKey(c[2]) >= lineKey(c[3]) }

\* The layouts a session starts from: every type, on a valid outline as
\* wide as the grid or narrower and on an invalid one; top-to-bottom,
\* shorter, horizontal, null and fractional lines as the TWO_PAGES cutter;
\* top-to-bottom, null and horizontal SINGLE_PAGE_CUT cutters.
InitOutlines ==
  { FullRect, Rc(Zero, Zero, R(MaxX - 1), R(MaxY)), Rc(Zero, Zero, R(-1), R(MaxY)) }
NoLine == Ln(Pt(Zero, Zero), Pt(Zero, Zero))
Half == <<1, 2>>
\* Two parallel lines from the origin with fractional coordinates: the
\* first rounds to (0,0)-(1,1), the second is (0,0)-(2,1).
FracLines ==
  { Ln(Pt(Zero, Zero), Pt(One, Half)), Ln(Pt(Zero, Zero), Pt(Two, One)) }
\* The TWO_PAGES cutters of the initial layouts.
SplitLines ==
  SpanLines \cup ShortLines \cup FracLines
    \cup { l \in Lines : l.p1.y = l.p2.y }
CutLines ==
  SpanLines \cup FracLines \cup { NoLine, Ln(Pt(Zero, One), Pt(R(MaxX), One)) }
\* The two cutters of a SINGLE_PAGE_CUT layout are drawn in one order, by
\* decreasing lineKey, so that the sort in adaptCutters has work to do:
\* adaptCutters sorts them and every order of equal keys is explored.
CutPairs == { c \in CutLines \X CutLines : lineKey(c[1]) >= lineKey(c[2]) }
InitLayouts ==
  { PageLayoutUncut(o) : o \in InitOutlines }
    \cup { PageLayoutTwoPages(o, l) : o \in InitOutlines, l \in SplitLines }
    \cup { PageLayoutCut(o, c[1], c[2]) : o \in InitOutlines, c \in CutPairs }
\* A valid rectangle with fractional bounds: half a unit in from the grid's
\* left and top edges.
FracRect == Rc(Half, Half, R(MaxX - 1), R(MaxY - 1))
\* The outlines passed to adaptPageLayout: the initial outlines and their
\* bounding rectangles, a shorter rectangle, one of zero width, one of zero
\* height and the fractional one.
Outlines ==
  InitOutlines \cup { boundingRect(o) : o \in InitOutlines }
    \cup { Rc(Zero, Zero, R(MaxX), R(MaxY - 1)), Rc(Zero, Zero, Zero, R(MaxY)),
           Rc(Zero, Zero, R(MaxX), Zero), FracRect }
\* The outlines passed to the later calls of a session: a valid one on the
\* grid, the fractional one and one of zero width.
LaterOutlines == { FullRect, FracRect, Rc(Zero, Zero, Zero, R(MaxY)) }
\* At most MaxCalls calls of adaptPageLayout in a session.
MaxCalls == 1

\* The vectors: dimensions 1 to 3, integer elements of absolute value up
\* to MaxElem; the scalars an operator/ divides by: the integers other
\* than zero of absolute value up to MaxScalar.
MaxElem == 1
MaxScalar == 2
Dims == {1, 2, 3}
Elems == { R(i) : i \in (-MaxElem)..MaxElem }
VecsOf(n) == [1..n -> Elems]
Scalars == { R(i) : i \in ((-MaxScalar)..MaxScalar) \ {0} }

\* The layouts handed to correctPageLayoutType on its own: outlines with
\* bounds on a quarter-unit grid (left and top up to one unit in, right and
\* bottom within the grid's last unit) and two of no width; cutters that
\* lie exactly on the outline's left and right edges, vertical and nearly
\* vertical lines a quarter or half a unit from the grid's edges, the
\* top-to-bottom grid lines, the fractional, null and horizontal lines.
Quarter(k) == Norm(k, 4)
CorrectOutlines ==
  { Rc(Quarter(a), Quarter(2 * b), Quarter(4 * (MaxX - 1) + c),
       Quarter(4 * (MaxY - 1) + 2 * d)) :
      a \in 0..3, b \in 0..1, c \in 0..3, d \in 0..1 }
    \cup { Rc(Zero, Zero, Zero, R(MaxY)), Rc(Zero, Zero, R(-1), R(MaxY)) }
edgeLines(o) ==
  { Ln(topLeft(o), bottomLeft(o)), Ln(topRight(o), bottomRight(o)) }
NearVerticals ==
  { Ln(Pt(Quarter(k), Zero), Pt(Quarter(k), R(MaxY))) :
      k \in {0, 1, 2, 4 * MaxX - 1, 4 * MaxX} }
    \cup { Ln(Pt(Zero, Zero), Pt(Quarter(1), R(MaxY))) }
CorrectLines(o) ==
  SpanLines \cup FracLines \cup edgeLines(o) \cup NearVerticals
    \cup { NoLine, Ln(Pt(Zero, One), Pt(R(MaxX), One)) }


\* ------------------------------------------------------------------ state
VARIABLES
  pc,              \* "start" | "done": whether a call has returned
  rect,            \* adaptCutter(s): the target rectangle (newRect)
  cutter,          \* adaptCutter: the line passed in (cutterLine)
  adapted,         \* adaptCutter: the return value
  cuttersList,     \* adaptCutters: the lines passed in
  sortedCutters,   \* adaptCutters: adaptedCutters right after std::sort
  adaptedCutters,  \* adaptCutters: the return value
  pageLayout,      \* adaptPageLayout: the layout passed to the last call
  outline,         \* adaptPageLayout: the outline passed to the last call
  newPageLayout,   \* adaptPageLayout: the last return value, the layout held
  calls,           \* the number of adaptPageLayout calls made
  vecOp,           \* VecNT: the operation called, "none" before the call
  vec,             \* VecNT: the vector operand (*this, vec)
  other,           \* VecNT: dot's argument
  scalar,          \* VecNT: operator/'s scalar
  scalarOut,       \* VecNT: the T returned by sum, dot or squaredNorm
  vecOut           \* VecNT: the vector returned by an operator/

lineVars == <<cutter, adapted>>
listVars == <<cuttersList, sortedCutters, adaptedCutters>>
layoutVars == <<pageLayout, outline, newPageLayout, calls>>
vecVars == <<vecOp, vec, other, scalar, scalarOut, vecOut>>
vars == <<pc, rect, lineVars, listVars, layoutVars, vecVars>>

\* The variables of the calls a specification does not make.
NoLineCall == cutter = NoLine /\ adapted = NoLine
NoListCall == cuttersList = <<>> /\ sortedCutters = <<>> /\ adaptedCutters = <<>>
NoLayoutCall ==
  /\ pageLayout = PageLayoutUncut(FullRect)
  /\ outline = FullRect
  /\ newPageLayout = PageLayoutUncut(FullRect)
  /\ calls = 0

NoVecCall ==
  /\ vecOp = "none"
  /\ vec = <<>>
  /\ other = <<>>
  /\ scalar = One
  /\ scalarOut = Zero
  /\ vecOut = <<>>

\* ------------------------------------------------- specification SpecLine
\* One call adaptCutter(cutter, rect) on every line and rectangle of the grid.
InitLine ==
  /\ pc = "start"
  /\ cutter \in Lines
  /\ rect \in Rects
  /\ adapted = cutter
  /\ NoListCall
  /\ NoLayoutCall
  /\ NoVecCall

CallAdaptCutter ==
  /\ pc = "start"
  /\ adapted' = adaptCutter(cutter, rect)
  /\ pc' = "done"
  /\ UNCHANGED <<cutter, rect, listVars, layoutVars, vecVars>>

NextLine == CallAdaptCutter

SpecLine == InitLine /\ [][NextLine]_vars

\* ------------------------------------------------ specification SpecLines
\* One call adaptCutters(cuttersList, rect).
InitLines ==
  /\ pc = "start"
  /\ \/ cuttersList \in { <<l>> : l \in Lines } /\ rect \in ListRects
     \/ cuttersList \in BothSpanPairs /\ rect \in ListRects
     \/ cuttersList \in SpanPairs /\ rect \in MixedRects
     \/ cuttersList \in SpanPairs \cup FlatPairs \cup ShortPairs /\ rect = FullRect
     \/ cuttersList \in Triples /\ rect \in { r \in ListRects : isValid(r) }
  /\ sortedCutters = <<>>
  /\ adaptedCutters = <<>>
  /\ NoLineCall
  /\ NoLayoutCall
  /\ NoVecCall

CallAdaptCutters ==
  /\ pc = "start"
  /\ \E sorted \in sortedOrders(projectAll(cuttersList, rect)) :
       /\ sortedCutters' = sorted
       /\ adaptedCutters' = resolved(sorted, rect)
  /\ pc' = "done"
  /\ UNCHANGED <<cuttersList, rect, lineVars, layoutVars, vecVars>>

NextLines == CallAdaptCutters

SpecLines == InitLines /\ [][NextLines]_vars

\* ---------------------------------------------- specification SpecCorrect
\* One call correctPageLayoutType(&layout): pageLayout is the layout before
\* the call, newPageLayout the layout after it.
InitCorrect ==
  /\ pc = "start"
  /\ \E o \in CorrectOutlines :
       \/ pageLayout = PageLayoutUncut(o)
       \/ \E l \in CorrectLines(o) : pageLayout = PageLayoutTwoPages(o, l)
       \/ \E l, m \in CorrectLines(o) : pageLayout = PageLayoutCut(o, l, m)
  /\ newPageLayout = pageLayout
  /\ outline = pageLayout.uncutOutline
  /\ calls = 0
  /\ rect = FullRect
  /\ NoLineCall
  /\ NoListCall
  /\ NoVecCall

CallCorrectPageLayoutType ==
  /\ pc = "start"
  /\ newPageLayout' = correctPageLayoutType(pageLayout)
  /\ pc' = "done"
  /\ UNCHANGED <<rect, lineVars, listVars, pageLayout, outline, calls, vecVars>>

NextCorrect == CallCorrectPageLayoutType

SpecCorrect == InitCorrect /\ [][NextCorrect]_vars

\* ----------------------------------------------------- specification Spec
\* A session of the page-split stage: it holds a layout and replaces it by
\* adaptPageLayout(layout, outline) each time the outline is set.
Init ==
  /\ pc = "start"
  /\ newPageLayout \in InitLayouts
  /\ pageLayout = newPageLayout
  /\ outline = newPageLayout.uncutOutline
  /\ calls = 0
  /\ rect = FullRect
  /\ NoLineCall
  /\ NoListCall
  /\ NoVecCall

CallAdaptPageLayout ==
  /\ calls < MaxCalls
  /\ \E o \in IF calls = 0 THEN Outlines ELSE LaterOutlines :
       /\ outline' = o
       /\ newPageLayout' \in adaptPageLayout(newPageLayout, o)
  /\ pageLayout' = newPageLayout
  /\ calls' = calls + 1
  /\ pc' = "done"
  /\ UNCHANGED <<rect, lineVars, listVars, vecVars>>

Next == CallAdaptPageLayout

Spec == Init /\ [][Next]_vars

\* -------------------------------------------------- specification SpecVec
\* One call of sum, dot, squaredNorm or an operator/ on vectors of one to
\* three elements.
InitVec ==
  /\ pc = "start"
  /\ vecOp = "none"
  /\ \E n \in Dims :
       /\ vec \in VecsOf(n)
       /\ \/ other \in VecsOf(n) /\ scalar = One
          \/ other = vec /\ scalar \in Scalars
  /\ scalarOut = Zero
  /\ vecOut = <<>>
  /\ rect = FullRect
  /\ NoLineCall
  /\ NoListCall
  /\ NoLayoutCall

CallSum ==
  /\ pc = "start"
  /\ vecOp' = "sum"
  /\ scalarOut' = sum(vec)
  /\ pc' = "done"
  /\ UNCHANGED <<vec, other, scalar, vecOut, rect, lineVars, listVars, layoutVars>>

CallDot ==
  /\ pc = "start"
  /\ vecOp' = "dot"
  /\ scalarOut' = dot(vec, other)
  /\ pc' = "done"
  /\ UNCHANGED <<vec, other, scalar, vecOut, rect, lineVars, listVars, layoutVars>>

CallSquaredNorm ==
  /\ pc = "start"
  /\ vecOp' = "squaredNorm"
  /\ scalarOut' = squaredNorm(vec)
  /\ pc' = "done"
  /\ UNCHANGED <<vec, other, scalar, vecOut, rect, lineVars, listVars, layoutVars>>

CallDivVecScalar ==
  /\ pc = "start"
  /\ vecOp' = "vec/scalar"
  /\ vecOut' = divVecScalar(vec, scalar)
  /\ pc' = "done"
  /\ UNCHANGED <<vec, other, scalar, scalarOut, rect, lineVars, listVars, layoutVars>>

CallDivScalarVec ==
  /\ pc = "start"
  /\ vecOp' = "scalar/vec"
  /\ vecOut' = divScalarVec(scalar, vec)
  /\ pc' = "done"
  /\ UNCHANGED <<vec, other, scalar, scalarOut, rect, lineVars, listVars, layoutVars>>

NextVec ==
  \/ CallSum
  \/ CallDot
  \/ CallSquaredNorm
  \/ CallDivVecScalar
  \/ CallDivScalarVec

SpecVec == InitVec /\ [][NextVec]_vars

\* ------------------------------------------------- geometry of the claims
\* The x at height y of the infinite line through l (l not horizontal).
xAt(l, y) ==
  RAdd(l.p1.x, RDiv(RMul(RSub(l.p2.x, l.p1.x), RSub(y, l.p1.y)),
                    RSub(l.p2.y, l.p1.y)))

horizontal(l) == l.p1.y = l.p2.y
nullLine(l) == l.p1 = l.p2
within(x, lo, hi) == RLe(lo, x) /\ RLe(x, hi)

\* Point q lies on the infinite line through l.
onLineOf(l, q) ==
  RMul(RSub(l.p2.x, l.p1.x), RSub(q.y, l.p1.y))
    = RMul(RSub(l.p2.y, l.p1.y), RSub(q.x, l.p1.x))

\* Lines l and m intersect at a y strictly inside r's vertical span.
crossInside(l, m, r) ==
  LET is == intersects(l, m)
  IN  /\ is.type # NoIntersection
      /\ RGt(is.point.y, top(r))
      /\ RLt(is.point.y, bottom(r))

\* The call projected a line that is neither null nor horizontal on a valid
\* rectangle.
ProjectedCase ==
  /\ pc = "done"
  /\ isValid(rect)
  /\ ~nullLine(cutter)
  /\ ~horizontal(cutter)

\* ------------------------------------------------------------ projectLine
\* C6: on a valid rectangle, a line that is not null and not parallel to the
\* top border is projected to a segment from the top border to the bottom
\* border with both x in [left, right]; an intersection left of the
\* rectangle lands on left, one right of it on right.
C6_ProjectionClamped ==
  ProjectedCase =>
    LET xt == xAt(cutter, top(rect))
        xb == xAt(cutter, bottom(rect))
    IN  /\ adapted.p1.y = top(rect)
        /\ within(adapted.p1.x, left(rect), right(rect))
        /\ adapted.p2.y = bottom(rect)
        /\ within(adapted.p2.x, left(rect), right(rect))
        /\ RLt(xt, left(rect)) => adapted.p1.x = left(rect)
        /\ RGt(xt, right(rect)) => adapted.p1.x = right(rect)
        /\ RLt(xb, left(rect)) => adapted.p2.x = left(rect)
        /\ RGt(xb, right(rect)) => adapted.p2.x = right(rect)

\* A top intersection right of the rectangle was clamped to right.
C6_Witness ==
  /\ ProjectedCase
  /\ RGt(xAt(cutter, top(rect)), right(rect))
  /\ adapted.p1 = Pt(right(rect), top(rect))

\* C7: when the infinite line meets both border lines inside [left, right],
\* the result is exactly (x_t, top)-(x_b, bottom), collinear with the input,
\* also when the segment itself does not reach the borders.
C7_ExactProjection ==
  ProjectedCase =>
    LET xt == xAt(cutter, top(rect))
        xb == xAt(cutter, bottom(rect))
    IN  (within(xt, left(rect), right(rect)) /\ within(xb, left(rect), right(rect)))
          => /\ adapted = Ln(Pt(xt, top(rect)), Pt(xb, bottom(rect)))
             /\ onLineOf(cutter, adapted.p1)
             /\ onLineOf(cutter, adapted.p2)

\* A slanted segment lying wholly below the top border was extended to it.
C7_Witness ==
  /\ ProjectedCase
  /\ RGt(cutter.p1.y, top(rect))
  /\ RGt(cutter.p2.y, top(rect))
  /\ within(xAt(cutter, top(rect)), left(rect), right(rect))
  /\ within(xAt(cutter, bottom(rect)), left(rect), right(rect))
  /\ adapted.p1.x # adapted.p2.x
  /\ adapted.p1.y = top(rect) /\ adapted.p2.y = bottom(rect)

\* C8: an invalid rectangle, a null line or a horizontal line gives the
\* input back; a result that differs from the input has both endpoints on
\* the borders, never only one.
C8_IdentityFallback ==
  pc = "done" =>
    /\ (~isValid(rect) \/ nullLine(cutter) \/ horizontal(cutter)) => adapted = cutter
    /\ adapted # cutter =>
         adapted.p1.y = top(rect) /\ adapted.p2.y = bottom(rect)

\* A horizontal line inside a valid rectangle came back unchanged.
C8_Witness ==
  /\ pc = "done"
  /\ isValid(rect)
  /\ horizontal(cutter) /\ ~nullLine(cutter)
  /\ RGt(cutter.p1.y, top(rect)) /\ RLt(cutter.p1.y, bottom(rect))
  /\ adapted = cutter

\* C9: a line from the rectangle's top border to its bottom border, both x
\* in [left, right], is a fixed point of the projection.
C9_FittedLineUnchanged ==
  ( /\ pc = "done"
    /\ isValid(rect)
    /\ cutter.p1.y = top(rect) /\ cutter.p2.y = bottom(rect)
    /\ within(cutter.p1.x, left(rect), right(rect))
    /\ within(cutter.p2.x, left(rect), right(rect)) )
  => adapted = cutter

\* A slanted fitted line was projected.
C9_Witness ==
  /\ pc = "done"
  /\ isValid(rect)
  /\ cutter.p1.y = top(rect) /\ cutter.p2.y = bottom(rect)
  /\ within(cutter.p1.x, left(rect), right(rect))
  /\ within(cutter.p2.x, left(rect), right(rect))
  /\ cutter.p1.x # cutter.p2.x
  /\ adapted = cutter

\* ----------------------------------------------------------- projectLines
\* C3: two lines whose projections on a valid rectangle cross strictly
\* inside its vertical span are returned so that they do not intersect, or
\* intersect with y on the top or the bottom bound.
C3_PairCrossingResolved ==
  ( /\ pc = "done"
    /\ Len(cuttersList) = 2
    /\ isValid(rect)
    /\ crossInside(adaptCutter(cuttersList[1], rect),
                   adaptCutter(cuttersList[2], rect), rect) )
  => LET is == intersects(adaptedCutters[1], adaptedCutters[2])
     IN  \/ is.type = NoIntersection
         \/ is.point.y = top(rect)
         \/ is.point.y = bottom(rect)

\* Two crossing projections were truncated and now meet on a border.
C3_Witness ==
  /\ pc = "done"
  /\ Len(cuttersList) = 2
  /\ isValid(rect)
  /\ crossInside(adaptCutter(cuttersList[1], rect),
                 adaptCutter(cuttersList[2], rect), rect)
  /\ adaptedCutters # sortedCutters
  /\ intersects(adaptedCutters[1], adaptedCutters[2]).type # NoIntersection

\* C4: for a list of any length and a valid rectangle, no two lines adjacent
\* in the returned list cross strictly inside the rectangle's vertical span.
C4_NoAdjacentCrossing ==
  (pc = "done" /\ isValid(rect)) =>
    \A i \in 2..Len(adaptedCutters) :
      ~crossInside(adaptedCutters[i - 1], adaptedCutters[i], rect)

\* C5: when the pair the loop looks at crosses at (cx, cy) strictly inside,
\* both second endpoints become (cx, bottom) if bottom - cy is at most half
\* the span (the midpoint included), else both first endpoints become
\* (cx, top); the other endpoints stay.
C5_TieBreak ==
  pc = "done" =>
    \A i \in 2..Len(sortedCutters) :
      LET before == fixUpTo(sortedCutters, i - 1, rect)
          after == IF i = Len(sortedCutters)
                   THEN adaptedCutters
                   ELSE fixUpTo(sortedCutters, i, rect)
          l == before[i - 1]
          m == before[i]
          c == intersects(l, m).point
      IN  crossInside(l, m, rect) =>
            IF RLe(RMul(Two, RSub(bottom(rect), c.y)), RSub(bottom(rect), top(rect)))
            THEN /\ after[i - 1] = Ln(l.p1, Pt(c.x, bottom(rect)))
                 /\ after[i] = Ln(m.p1, Pt(c.x, bottom(rect)))
            ELSE /\ after[i - 1] = Ln(Pt(c.x, top(rect)), l.p2)
                 /\ after[i] = Ln(Pt(c.x, top(rect)), m.p2)

\* A pair crossing exactly at the vertical midpoint was cut at the bottom.
C5_Witness ==
  /\ pc = "done"
  /\ Len(sortedCutters) = 2
  /\ crossInside(sortedCutters[1], sortedCutters[2], rect)
  /\ LET c == intersects(sortedCutters[1], sortedCutters[2]).point
     IN  /\ RMul(Two, RSub(bottom(rect), c.y)) = RSub(bottom(rect), top(rect))
         /\ adaptedCutters[1] = Ln(sortedCutters[1].p1, Pt(c.x, bottom(rect)))
         /\ adaptedCutters[2] = Ln(sortedCutters[2].p1, Pt(c.x, bottom(rect)))

\* C10: the returned list is ordered by non-decreasing x of the first
\* endpoints, for every length and rectangle.
C10_ResultSorted ==
  pc = "done" =>
    \A i \in 2..Len(adaptedCutters) :
      RLe(adaptedCutters[i - 1].p1.x, adaptedCutters[i].p1.x)

\* ------------------------------------------------------------ adaptLayout
\* The last call was made with the bounding rectangle of the layout's own
\* outline.
SameOutline == outline = boundingRect(pageLayout.uncutOutline)

\* C1: adaptLayout with the layout's own outline bounding rectangle returns
\* the layout itself, type, outline and cutter lines, uncorrected.
C1_IdentityOnSameOutline ==
  (pc = "done" /\ SameOutline) => newPageLayout = pageLayout

\* A TWO_PAGES layout whose cutter lies on an outline edge, which the
\* correction step would degrade, came back as it was.
C1_Witness ==
  /\ pc = "done"
  /\ SameOutline
  /\ pageLayout.type = TWO_PAGES
  /\ pageLayout.cutters[1].p1.x = pageLayout.cutters[1].p2.x
  /\ pageLayout.cutters[1].p1.x = right(outline)
  /\ ~nullLine(pageLayout.cutters[1])
  /\ newPageLayout = pageLayout

\* Line l is vertical on the left or right edge of rectangle o.
edgeLine(l, o) ==
  l.p1.x = l.p2.x /\ (l.p1.x = left(o) \/ l.p1.x = right(o))

\* Cutters cs of a layout of the given type agree with that type inside
\* rectangle o.
ConsistentIn(type, cs, o) ==
  /\ type = TWO_PAGES => ~edgeLine(cs[1], o)
  /\ type = SINGLE_PAGE_CUT =>
       /\ ~(edgeLine(cs[1], o) /\ edgeLine(cs[2], o))
       /\ ~crossInside(cs[1], cs[2], o)
       /\ ~(/\ intersects(cs[1], cs[2]).type = NoIntersection
            /\ cs[1].p1 = cs[2].p1)

\* The classification of layout L agrees with its geometry as stored.
Consistent(L) ==
  ConsistentIn(L.type, L.cutters, boundingRect(L.uncutOutline))

\* C2 as claimed: every layout adaptLayout returns has a classification
\* consistent with its geometry (a TWO_PAGES cutter is not a vertical edge
\* line; SINGLE_PAGE_CUT cutters are not both vertical edge lines, do not
\* cross strictly between top and bottom, and are not non-intersecting
\* lines with the same first endpoint), the call with an unchanged
\* outline included.
C2_AlwaysConsistent == pc = "done" => Consistent(newPageLayout)

\* C2 for the calls that adapt: every layout adaptLayout returns for an
\* outline that differs from the old outline's bounding rectangle has a
\* classification consistent with its geometry. It follows from C2 as
\* claimed, so a call that violates it violates the claim.
C2_ConsistentWhenAdapted ==
  (pc = "done" /\ ~SameOutline) => Consistent(newPageLayout)

\* C11: a call with an outline that differs from the old outline's bounding
\* rectangle returns a layout built on the new outline: no cutters and type
\* SINGLE_PAGE_UNCUT for an uncut layout, the projected cutter for a
\* TWO_PAGES layout, and the first two resolved lines, in their order, for
\* a SINGLE_PAGE_CUT layout.
C11_AdaptedLayout ==
  (pc = "done" /\ ~SameOutline) =>
    /\ newPageLayout.uncutOutline = outline
    /\ pageLayout.type = SINGLE_PAGE_UNCUT =>
         newPageLayout.type = SINGLE_PAGE_UNCUT /\ newPageLayout.cutters = <<>>
    /\ pageLayout.type = TWO_PAGES =>
         newPageLayout.cutters = <<adaptCutter(pageLayout.cutters[1], outline)>>
    /\ pageLayout.type = SINGLE_PAGE_CUT =>
         \E sorted \in sortedOrders(projectAll(pageLayout.cutters, outline)) :
           newPageLayout.cutters = resolved(sorted, outline)

\* A SINGLE_PAGE_CUT layout was adapted to a valid outline: the sort
\* exchanged its cutters, the projection moved them, and the type stayed.
C11_Witness ==
  /\ pc = "done"
  /\ ~SameOutline
  /\ isValid(outline)
  /\ pageLayout.type = SINGLE_PAGE_CUT
  /\ newPageLayout.type = SINGLE_PAGE_CUT
  /\ RLt(pageLayout.cutters[2].p1.x, pageLayout.cutters[1].p1.x)
  /\ newPageLayout.cutters[1] # pageLayout.cutters[2]
  /\ newPageLayout.cutters[1] # newPageLayout.cutters[2]

\* ------------------------------------------------------------ correctType
\* The outline correctType works in: the bounding rectangle of the layout's
\* outline, as stored.
outlineOf(L) == boundingRect(L.uncutOutline)

\* C12: correctType turns a SINGLE_PAGE_CUT layout into SINGLE_PAGE_UNCUT
\* whenever both cutters are vertical and each lies on the outline's left
\* or right edge.
C12_BothOnEdgesDegrades ==
  (/\ pc = "done"
   /\ pageLayout.type = SINGLE_PAGE_CUT
   /\ edgeLine(pageLayout.cutters[1], outlineOf(pageLayout))
   /\ edgeLine(pageLayout.cutters[2], outlineOf(pageLayout)))
    => newPageLayout.type = SINGLE_PAGE_UNCUT

\* A SINGLE_PAGE_CUT layout with one cutter on the left and one on the
\* right edge of an outline with fractional bounds was degraded.
C12_Witness ==
  /\ pc = "done"
  /\ pageLayout.type = SINGLE_PAGE_CUT
  /\ pageLayout.cutters[1] = Ln(topLeft(outline), bottomLeft(outline))
  /\ pageLayout.cutters[2] = Ln(topRight(outline), bottomRight(outline))
  /\ left(outline)[2] # 1
  /\ right(outline)[2] # 1
  /\ isValid(outline)
  /\ newPageLayout.type = SINGLE_PAGE_UNCUT

\* C13: correctType turns a SINGLE_PAGE_CUT layout into SINGLE_PAGE_UNCUT
\* whenever its cutters intersect at a y strictly between the outline's
\* top and bottom, or do not intersect and have the same first endpoint.
C13_CrossOrCoincideDegrades ==
  (/\ pc = "done"
   /\ pageLayout.type = SINGLE_PAGE_CUT
   /\ \/ crossInside(pageLayout.cutters[1], pageLayout.cutters[2],
                     outlineOf(pageLayout))
      \/ /\ intersects(pageLayout.cutters[1], pageLayout.cutters[2]).type
              = NoIntersection
         /\ pageLayout.cutters[1].p1 = pageLayout.cutters[2].p1)
    => newPageLayout.type = SINGLE_PAGE_UNCUT

\* C14: correctType turns a TWO_PAGES layout into SINGLE_PAGE_UNCUT whenever
\* its cutter is vertical on the outline's left or right edge, the outline's
\* bounds being integers or not.
C14_CutterOnEdgeDegrades ==
  (/\ pc = "done"
   /\ pageLayout.type = TWO_PAGES
   /\ edgeLine(pageLayout.cutters[1], outlineOf(pageLayout)))
    => newPageLayout.type = SINGLE_PAGE_UNCUT

\* A TWO_PAGES layout whose cutter lies on the right edge of an outline
\* with a fractional right bound was degraded.
C14_Witness ==
  /\ pc = "done"
  /\ pageLayout.type = TWO_PAGES
  /\ pageLayout.cutters[1] = Ln(topRight(outline), bottomRight(outline))
  /\ right(outline)[2] = 4
  /\ left(outline)[2] = 4
  /\ isValid(outline)
  /\ newPageLayout.type = SINGLE_PAGE_UNCUT

\* C20: correctType leaves the outline and the cutter lines as they were,
\* and changes the type only when the layout meets one of the degrade
\* conditions.
C20_OnlyTypeOnlyOnCondition ==
  pc = "done" =>
    /\ newPageLayout.uncutOutline = pageLayout.uncutOutline
    /\ newPageLayout.cutters = pageLayout.cutters
    /\ newPageLayout.type # pageLayout.type =>
         ~ConsistentIn(pageLayout.type, pageLayout.cutters,
                       outlineOf(pageLayout))

\* --------------------------------------------------- adaptLayout, continued
\* Line l is vertical, not null, and at or beyond the left or right edge of
\* rectangle o.
verticalOutside(l, o) ==
  /\ l.p1.x = l.p2.x
  /\ l.p1 # l.p2
  /\ RGe(l.p1.x, right(o)) \/ RLe(l.p1.x, left(o))

numCutters(type) ==
  IF type = SINGLE_PAGE_CUT THEN 2 ELSE IF type = TWO_PAGES THEN 1 ELSE 0

\* C17: every layout adaptLayout returns stores as many cutter lines as its
\* type has: the correction step that degrades a layout to
\* SINGLE_PAGE_UNCUT removes its lines.
C17_CutterCountMatchesType ==
  pc = "done" => Len(newPageLayout.cutters) = numCutters(newPageLayout.type)

\* C18: for every input layout of a session whose cutter count matches its
\* type, the call with any outline returns a layout: the projection returns
\* as many lines as it was given, every sort order leaves two resolved lines
\* for a SINGLE_PAGE_CUT layout, and the call has a return value.
C18_AlwaysReturns ==
  (/\ calls = 0
   /\ Len(newPageLayout.cutters) = numCutters(newPageLayout.type)) =>
    \A o \in Outlines :
      /\ Len(projectAll(newPageLayout.cutters, o)) = Len(newPageLayout.cutters)
      /\ \A sorted \in sortedOrders(projectAll(newPageLayout.cutters, o)) :
           Len(resolved(sorted, o)) = Len(newPageLayout.cutters)
      /\ adaptPageLayout(newPageLayout, o) # {}

\* A SINGLE_PAGE_CUT layout with a horizontal and a null cutter was adapted
\* to an outline of no height and came back with two cutters.
C18_Witness ==
  /\ pc = "done"
  /\ ~SameOutline
  /\ ~isValid(outline)
  /\ pageLayout.type = SINGLE_PAGE_CUT
  /\ horizontal(pageLayout.cutters[1])
  /\ ~nullLine(pageLayout.cutters[1])
  /\ nullLine(pageLayout.cutters[2])
  /\ Len(newPageLayout.cutters) = 2

\* ------------------------------------------------- projectLines, continued
\* C19: for an invalid rectangle every line projectLines returns is one of
\* the lines it was given, endpoints untouched.
C19_InvalidRectUntouched ==
  (pc = "done" /\ ~isValid(rect)) =>
    \A i \in 1..Len(adaptedCutters) :
      \E j \in 1..Len(cuttersList) : adaptedCutters[i] = cuttersList[j]


C22_OrderIndependent ==
  (pc = "done" /\ Len(cuttersList) = 2) =>
    \A s \in sortedOrders(projectAll(<<cuttersList[2], cuttersList[1]>>, rect)) :
      resolved(s, rect) = adaptedCutters

\* --------------------------------------------------- adaptLayout, resolved
\* The two cutters of layout L share their second endpoint on the bottom
\* border of rectangle o or their first endpoint on its top border.
meetOnBorder(L, o) ==
  \/ L.cutters[1].p2 = L.cutters[2].p2 /\ L.cutters[1].p2.y = bottom(o)
  \/ L.cutters[1].p1 = L.cutters[2].p1 /\ L.cutters[1].p1.y = top(o)

\* The last call adapted a SINGLE_PAGE_CUT layout to a valid outline on
\* which the projections of its two cutters cross strictly inside.
CrossingCutCase ==
  /\ pc = "done"
  /\ ~SameOutline
  /\ isValid(outline)
  /\ pageLayout.type = SINGLE_PAGE_CUT
  /\ crossInside(adaptCutter(pageLayout.cutters[1], outline),
                 adaptCutter(pageLayout.cutters[2], outline), outline)

\* C23: a SINGLE_PAGE_CUT layout whose projected cutters cross strictly
\* inside a valid new outline comes back with cutters that share one point
\* on the top or bottom border, and still of type SINGLE_PAGE_CUT.
C23_ResolvedCutAccepted ==
  CrossingCutCase =>
    /\ meetOnBorder(newPageLayout, outline)
    /\ newPageLayout.type = SINGLE_PAGE_CUT

\* ------------------------------------------------- projectLines, continued
\* Every line of the list handed to adaptCutters is neither null nor
\* horizontal, and the rectangle is valid.
AllProjectedCase ==
  /\ pc = "done"
  /\ isValid(rect)
  /\ Len(cuttersList) >= 2
  /\ \A i \in 1..Len(cuttersList) :
       ~nullLine(cuttersList[i]) /\ ~horizontal(cuttersList[i])

\* C24: for a valid rectangle and lines that are neither null nor
\* horizontal, every returned line runs from the top border to the bottom
\* border with both x in [left, right], truncated or not.
C24_ResultOnBorders ==
  AllProjectedCase =>
    \A i \in 1..Len(adaptedCutters) :
      /\ adaptedCutters[i].p1.y = top(rect)
      /\ adaptedCutters[i].p2.y = bottom(rect)
      /\ within(adaptedCutters[i].p1.x, left(rect), right(rect))
      /\ within(adaptedCutters[i].p2.x, left(rect), right(rect))

\* Two lines, one of them clamped to the rectangle's right edge, crossed
\* inside and were cut at a point of the bottom border that is not on the
\* grid.
C24_Witness ==
  /\ AllProjectedCase
  /\ Len(cuttersList) = 2
  /\ adaptedCutters # sortedCutters
  /\ \E i \in 1..2 : adaptCutter(cuttersList[i], rect).p1.x = right(rect)
                      /\ xAt(cuttersList[i], top(rect)) # right(rect)
  /\ adaptedCutters[1].p2 = adaptedCutters[2].p2
  /\ adaptedCutters[1].p2.x[2] # 1

\* -------------------------------------------------- correctType, rounding
\* x rounded to the nearest integer, as a qreal.
snap(x) == R(qRound(x))

\* The layout of L's type whose outline bounds and cutter endpoints are the
\* integers those of L round to.  Every layout with the same type and the
\* same rounded bounds and endpoints as L has this same rounded layout.
roundedLayout(L) ==
  LET o == boundingRect(L.uncutOutline)
  IN  [type |-> L.type,
       uncutOutline |-> Rc(snap(left(o)), snap(top(o)),
                           RSub(snap(right(o)), snap(left(o))),
                           RSub(snap(bottom(o)), snap(top(o)))),
       cutters |-> [i \in 1..Len(L.cutters) |->
                      Ln(Pt(snap(L.cutters[i].p1.x), snap(L.cutters[i].p1.y)),
                         Pt(snap(L.cutters[i].p2.x), snap(L.cutters[i].p2.y)))]]

\* C25: the corrected type of a layout is the corrected type of its rounded
\* layout, so two layouts of one type whose outline bounds and cutter
\* endpoints round to the same integers get the same corrected type.
C25_DecidesOnRoundedGeometry ==
  pc = "done" =>
    newPageLayout.type = correctPageLayoutType(roundedLayout(pageLayout)).type

\* A TWO_PAGES layout with a slightly slanted cutter next to the left edge
\* of an outline whose bounds are not integers was degraded as its rounded
\* layout, with a vertical cutter on the edge, is.
C25_Witness ==
  /\ pc = "done"
  /\ pageLayout.type = TWO_PAGES
  /\ pageLayout.cutters[1] = Ln(Pt(Zero, Zero), Pt(Quarter(1), R(MaxY)))
  /\ pageLayout.uncutOutline.x = Quarter(1)
  /\ roundedLayout(pageLayout) # pageLayout
  /\ matchesBound(roundedLayout(pageLayout).cutters[1],
                  roundedLayout(pageLayout).uncutOutline)
  /\ newPageLayout.type = SINGLE_PAGE_UNCUT

\* ------------------------------------------------- projectLine, continued
\* C26: on a valid rectangle the projection of a line that is neither null
\* nor horizontal is the projection of the same line with its endpoints
\* exchanged, and its first endpoint is the one on the top border.
C26_DirectionIgnored ==
  ProjectedCase =>
    /\ adapted = adaptCutter(Ln(cutter.p2, cutter.p1), rect)
    /\ adapted.p1.y = top(rect)
    /\ adapted.p2.y = bottom(rect)

\* A line given from its lower end to its upper end was projected to a
\* different line that starts on the top border.
C26_Witness ==
  /\ ProjectedCase
  /\ RGt(cutter.p1.y, cutter.p2.y)
  /\ cutter.p1.x # cutter.p2.x
  /\ adapted # cutter
  /\ adapted # Ln(cutter.p2, cutter.p1)
  /\ adapted.p1.y = top(rect)
  /\ adapted = adaptCutter(Ln(cutter.p2, cutter.p1), rect)

\* ------------------------------------------------- projectLines, segments
\* C27: a pair the loop looks at whose segments share no point (the
\* intersection is not a bounded one) is left as it is, also when the
\* infinite lines through them meet at a y strictly inside the rectangle.
C27_OnlySegmentsCrossing ==
  pc = "done" =>
    \A i \in 2..Len(sortedCutters) :
      LET before == fixUpTo(sortedCutters, i - 1, rect)
          after == IF i = Len(sortedCutters)
                   THEN adaptedCutters
                   ELSE fixUpTo(sortedCutters, i, rect)
      IN  intersects(before[i - 1], before[i]).type # BoundedIntersection
            => after = before

\* ------------------------------------------------------------------ VecNT
\* The sum of the elements as a sum over the set of indices.
RECURSIVE sumOver(_, _)
sumOver(s, I) ==
  IF I = {} THEN Zero
  ELSE LET i == CHOOSE j \in I : \A k \in I : j >= k
       IN  RAdd(s[i], sumOver(s, I \ {i}))

\* C28: sum returns the sum of the N elements, dot the sum of the
\* element-wise products, and squaredNorm what dot of the vector with
\* itself returns.
C28_SumDotNorm ==
  /\ vecOp = "sum" => scalarOut = sumOver(vec, DOMAIN vec)
  /\ vecOp = "dot" =>
       scalarOut = sumOver([i \in DOMAIN vec |-> RMul(vec[i], other[i])], DOMAIN vec)
  /\ vecOp = "squaredNorm" =>
       /\ scalarOut = dot(vec, vec)
       /\ scalarOut = sumOver([i \in DOMAIN vec |-> RMul(vec[i], vec[i])], DOMAIN vec)

\* dot was called on two different vectors of three elements, of both signs,
\* and returned a non-zero value.
C28_Witness ==
  /\ pc = "done"
  /\ vecOp = "dot"
  /\ Len(vec) = 3
  /\ vec # other
  /\ \E i, j \in DOMAIN vec : RLt(vec[i], Zero) /\ RGt(vec[j], Zero)
  /\ \A i \in DOMAIN other : other[i] # Zero
  /\ scalarOut # Zero
  /\ scalarOut = RAdd(RAdd(RMul(vec[1], other[1]), RMul(vec[2], other[2])),
                      RMul(vec[3], other[3]))

\* C29: operator/(scalar, vec) returns what operator/(vec, scalar) returns:
\* every element of vec divided by scalar.
C29_ScalarFirstDividesVector ==
  vecOp = "scalar/vec" =>
    /\ vecOut = divVecScalar(vec, scalar)
    /\ Len(vecOut) = Len(vec)
    /\ \A i \in DOMAIN vec : vecOut[i] = RDiv(vec[i], scalar)

\* operator/(scalar, vec) was called with a scalar of 2 and a vector of
\* three elements without a zero: the first element came back halved, which
\* is not 2 divided by it.
C29_Witness ==
  /\ pc = "done"
  /\ vecOp = "scalar/vec"
  /\ scalar = Two
  /\ Len(vec) = 3
  /\ \A i \in DOMAIN vec : vec[i] # Zero
  /\ vecOut[1] = RDiv(vec[1], Two)
  /\ vecOut[1] # RDiv(Two, vec[1])
====
